---- MODULE Spec2Model ----
(***************************************************************************)
(* Model of src/wetbulb_warnings.py: the Streamlit script that fetches the *)
(* air temperature and the relative humidity, averages the stations'       *)
(* readings, computes the wet-bulb temperature and classifies it.          *)
(***************************************************************************)
EXTENDS Integers, Sequences, FiniteSets, TLC

(***************************************************************************)
(* Bounds of the model.                                                    *)
(***************************************************************************)
\* Significand width of the binary floating-point format (53 in binary64).
Precision == 6
\* Longest list of station readings in an enumerated response.
MaxReadings == 3
\* Last value of the wall clock (seconds); timestamps are 0..MaxTime.
MaxTime == 1

(***************************************************************************)
(* Binary floating point, round to nearest, ties to even.  A number is    *)
(* m * 2^e with m = 0 or 2^(Precision-1) <= |m| < 2^Precision; the         *)
(* exponent range is unbounded (no overflow or underflow in the ranges     *)
(* used), and NaN is the one special value.                                *)
(***************************************************************************)
Abs(x) == IF x < 0 THEN -x ELSE x

Sgn(x) == IF x < 0 THEN -1 ELSE 1

Min(a, b) == IF a <= b THEN a ELSE b

Max(a, b) == IF a >= b THEN a ELSE b

\* Number of binary digits of n >= 0.
BitLen(n) == CHOOSE k \in 0..31 : n < 2^k /\ (k = 0 \/ 2^(k-1) <= n)

NaN == [k |-> "nan", m |-> 0, e |-> 0]

Num(m, e) == [k |-> "num", m |-> m, e |-> e]

Zero == Num(0, 0)

IsNaN(x) == x.k = "nan"

\* The float nearest to M * 2^e, ties to even.
RoundInt(M, e) ==
    IF M = 0 THEN Zero
    ELSE LET a == Abs(M)
             n == BitLen(a)
         IN  IF n <= Precision
             THEN Num(Sgn(M) * a * 2^(Precision - n), e - (Precision - n))
             ELSE LET k    == n - Precision
                      q    == a \div 2^k
                      r    == a % 2^k
                      half == 2^(k-1)
                      q2   == IF r > half \/ (r = half /\ q % 2 = 1)
                              THEN q + 1 ELSE q
                  IN  IF q2 = 2^Precision
                      THEN Num(Sgn(M) * 2^(Precision-1), e + k + 1)
                      ELSE Num(Sgn(M) * q2, e + k)

\* The float nearest to (num / den) * 2^e, den > 0: the quotient is taken with
\* two guard bits and a sticky bit, then rounded once.
RoundRat(num, den, e) ==
    IF num = 0 THEN Zero
    ELSE LET a == Abs(num)
             s == Max(0, Precision + 2 - (BitLen(a) - BitLen(den)))
             Q == (a * 2^s) \div den
             R == (a * 2^s) % den
         IN  RoundInt(Sgn(num) * (2 * Q + (IF R # 0 THEN 1 ELSE 0)), e - s - 1)

FromInt(n) == RoundInt(n, 0)

\* A decimal literal num / den of the source.
FromDecimal(num, den) == RoundRat(num, den, 0)

\* The common exponent two numbers are aligned to.
AlignExp(a, b) ==
    IF a.m = 0 THEN b.e ELSE IF b.m = 0 THEN a.e ELSE Min(a.e, b.e)

Aligned(x, e0) == IF x.m = 0 THEN 0 ELSE x.m * 2^(x.e - e0)

\* a + b
FAdd(a, b) ==
    IF IsNaN(a) \/ IsNaN(b) THEN NaN
    ELSE LET e0 == AlignExp(a, b)
         IN  RoundInt(Aligned(a, e0) + Aligned(b, e0), e0)

\* a / n for a count n >= 0; 0.0 / 0 is NaN (numpy warns and returns nan).
FDivCount(a, n) ==
    IF IsNaN(a) THEN NaN
    ELSE IF n = 0 THEN NaN
    ELSE RoundRat(a.m, n, a.e)

\* a < b, a <= b, a >= b; every comparison with NaN is false.
FLt(a, b) ==
    /\ ~IsNaN(a) /\ ~IsNaN(b)
    /\ LET e0 == AlignExp(a, b) IN Aligned(a, e0) < Aligned(b, e0)

FLe(a, b) ==
    /\ ~IsNaN(a) /\ ~IsNaN(b)
    /\ LET e0 == AlignExp(a, b) IN Aligned(a, e0) <= Aligned(b, e0)

FGe(a, b) == FLe(b, a)


\* Left-to-right sum from 0.0: numpy's loop for fewer than 8 values.
RECURSIVE FSum(_)
FSum(xs) ==
    IF Len(xs) = 0 THEN Zero
    ELSE FAdd(FSum(SubSeq(xs, 1, Len(xs) - 1)), xs[Len(xs)])

\* np.mean with the count off by one.
np_mean_off_by_one(xs) == FDivCount(FSum(xs), Len(xs) + 1)

\* np.mean of a list: the sum divided by the count.
np_mean(xs) == FDivCount(FSum(xs), Len(xs))

(***************************************************************************)
(* Module constants (lines 11-48).                                         *)
(***************************************************************************)
THRESHOLD_DANGER == 35

THRESHOLD_WARNING == 31

\* Each record is the tuple (headline, icon, advice); msg[0], msg[1], msg[2]
\* of the source are fields 1, 2, 3 here.
StatusMessageTable ==
    [i \in 0..2 |->
        CASE i = 0 -> <<"Current environment might be dangerous.", "siren",
                        "Some actions you can take to stay safe">>
          [] i = 1 -> <<"Current environment might be unsafe.", "warning",
                        "Consider these actions to minimise your risk of injury">>
          [] i = 2 -> <<"Current environment is safe.", "check",
                        "Stay on the alert for any signs of discomfort">>]

\* Status with WARNING and SAFE numbered the other way round.
StatusValueSwapped(s) ==
    CASE s = "DANGER" -> 0 [] s = "WARNING" -> 2 [] s = "SAFE" -> 1 [] s = "NONE" -> 3

\* class Status(Enum): the members' values.
StatusValue(s) ==
    CASE s = "DANGER" -> 0 [] s = "WARNING" -> 1 [] s = "SAFE" -> 2 [] s = "NONE" -> 3

(***************************************************************************)
(* Outcomes of a call: a returned value or a raised exception.             *)
(***************************************************************************)
Return(v) == [ok |-> TRUE, val |-> v]

Raise(x) == [ok |-> FALSE, exc |-> x]

\* A name that is not bound yet.
None == [None |-> TRUE]

(***************************************************************************)
(* The JSON bodies of the API, as the dicts and lists .json() returns.     *)
(***************************************************************************)
Reading(v) == [station_id |-> "S", value |-> v]

Batch(vals) ==
    [timestamp |-> "T", readings |-> [i \in 1..Len(vals) |-> Reading(vals[i])]]

\* A well-formed body: the batch that is used, then one that is not.
ReadingsBody(vals) == [items |-> <<Batch(vals), Batch(<<Zero>>)>>]

NoItemsBody == [message |-> "error"]

EmptyItemsBody == [items |-> <<>>]

NoReadingsBody == [items |-> <<[timestamp |-> "T"]>>]

\* What the network does with one GET.
NetworkFailure == [failed |-> TRUE]

HtmlResponse(code) == [failed |-> FALSE, status |-> code, json |-> FALSE]

JsonResponse(code, body) ==
    [failed |-> FALSE, status |-> code, json |-> TRUE, body |-> body]

\* requests.get(url, params=params).json(): the status code is never read.
requests_get_json(r) ==
    IF r.failed THEN Raise("ConnectionError")
    ELSE IF ~r.json THEN Raise("JSONDecodeError")
    ELSE Return(r.body)

\* The body of get_temp_rh for the two exchanges r1 (temperature) and r2
\* (humidity); sent counts the requests issued.
get_temp_rh(r1, r2) ==
    LET res_temp == requests_get_json(r1)
    IN  IF ~res_temp.ok THEN [out |-> res_temp, sent |-> 1]
        ELSE LET res_rh == requests_get_json(r2)
             IN  IF ~res_rh.ok THEN [out |-> res_rh, sent |-> 2]
                 ELSE [out |-> Return(<<res_temp.val, res_rh.val>>), sent |-> 2]

\* The lookup with defaults for every missing part: no readings, no error.
ReadingValuesLenient(d) ==
    IF "items" \notin DOMAIN d THEN Return(<<>>)
    ELSE IF Len(d.items) = 0 THEN Return(<<>>)
    ELSE IF "readings" \notin DOMAIN d.items[1] THEN Return(<<>>)
    ELSE LET rs == d.items[1].readings
         IN  Return([i \in 1..Len(rs) |-> rs[i].value])

\* d.get("items", -1)[0]["readings"], then [i["value"] for i in ...].
ReadingValues(d) ==
    IF "items" \notin DOMAIN d THEN Raise("TypeError")
    ELSE IF Len(d.items) = 0 THEN Raise("IndexError")
    ELSE IF "readings" \notin DOMAIN d.items[1] THEN Raise("KeyError")
    ELSE LET rs == d.items[1].readings
         IN  IF \E i \in 1..Len(rs) : "value" \notin DOMAIN rs[i]
             THEN Raise("KeyError")
             ELSE Return([i \in 1..Len(rs) |-> rs[i].value])

agg_values(temp, rh) ==
    LET tv == ReadingValues(temp)
    IN  IF ~tv.ok THEN tv
        ELSE LET avg_temp == np_mean(tv.val)
                 rv == ReadingValues(rh)
             IN  IF ~rv.ok THEN rv
                 ELSE Return(<<avg_temp, np_mean(rv.val)>>)

\* Results the arctangent formula is allowed to take: the boundary values of
\* the classifier and values well inside each tier.
FPred(x) ==
    IF x.m > 2^(Precision-1) THEN Num(x.m - 1, x.e)
    ELSE Num(2^Precision - 1, x.e - 1)

WetBulbValues ==
    { FromInt(-40), FromInt(26), FPred(FromInt(THRESHOLD_WARNING)),
      FromInt(THRESHOLD_WARNING), FPred(FromInt(THRESHOLD_DANGER)),
      FromInt(THRESHOLD_DANGER), FromInt(60) }

\* calc_wetbulb with a square root that returns nan on a negative argument
\* (numpy's), so that the formula returns nan.
calc_wetbulb_nan(temp, rh) ==
    IF FLt(rh, Zero) \/ IsNaN(temp) \/ IsNaN(rh) THEN {Return(NaN)}
    ELSE {Return(w) : w \in WetBulbValues}

\* calc_wetbulb: math.sqrt raises ValueError on a negative argument and
\* returns nan on nan; the operands are evaluated left to right, so
\* sqrt(rh + 8.313659) comes before sqrt(rh).  The value of the formula is
\* not computed: any element of WetBulbValues may be returned (nan when an
\* operand is nan).  The result is the set of possible outcomes.
calc_wetbulb(temp, rh) ==
    IF FLt(FAdd(rh, FromDecimal(8313659, 1000000)), Zero)
    THEN {Raise("ValueError")}
    ELSE IF FLt(rh, Zero) THEN {Raise("ValueError")}
    ELSE IF IsNaN(temp) \/ IsNaN(rh) THEN {Return(NaN)}
    ELSE {Return(w) : w \in WetBulbValues}

VARIABLES
    now,            \* the wall clock, in seconds
    cache,          \* st.cache_data of get_temp_rh: timestamp -> (temp, rh)
    status_message, \* the module-level guidance list
    pc,             \* the statement of __main__ the script run is at
    live_datetime,  \* __main__'s local names ...
    temp,
    rh,
    avg_temp,
    avg_rh,
    wetbulb,
    shown,          \* (status, msg) as display_output received them
    exception,      \* the exception that ended the run, or "none"
    page,           \* the elements rendered by the run, in order
    called,         \* functions whose body ran in this run
    requests_sent,  \* HTTP requests issued in this run
    exchanges,      \* what the network answered to them, in order
    fetch_log       \* every (timestamp, temp, rh) a get_temp_rh body returned

vars == <<now, cache, status_message, pc, live_datetime, temp, rh, avg_temp,
          avg_rh, wetbulb, shown, exception, page, called, requests_sent,
          exchanges, fetch_log>>

\* check_status with strict comparisons.
check_status_strict(wb_temp) ==
    LET status == IF FLt(FromInt(THRESHOLD_DANGER), wb_temp) THEN "DANGER"
                  ELSE IF FLt(FromInt(THRESHOLD_WARNING), wb_temp) THEN "WARNING"
                  ELSE "SAFE"
    IN  IF StatusValue(status) \in DOMAIN status_message
        THEN Return(<<status, status_message[StatusValue(status)]>>)
        ELSE Raise("IndexError")

\* check_status without the else branch: the initial Status.NONE survives.
check_status_no_else(wb_temp) ==
    LET status == IF FGe(wb_temp, FromInt(THRESHOLD_DANGER)) THEN "DANGER"
                  ELSE IF FGe(wb_temp, FromInt(THRESHOLD_WARNING)) THEN "WARNING"
                  ELSE "NONE"
    IN  IF StatusValue(status) \in DOMAIN status_message
        THEN Return(<<status, status_message[StatusValue(status)]>>)
        ELSE Raise("IndexError")

\* check_status: the initial Status.NONE is overwritten on every path of the
\* if / elif / else.  status_message[status.value]: a list index out of range
\* raises IndexError.
check_status(wb_temp) ==
    LET status == IF FGe(wb_temp, FromInt(THRESHOLD_DANGER)) THEN "DANGER"
                  ELSE IF FGe(wb_temp, FromInt(THRESHOLD_WARNING)) THEN "WARNING"
                  ELSE "SAFE"
    IN  IF StatusValue(status) \in DOMAIN status_message
        THEN Return(<<status, status_message[StatusValue(status)]>>)
        ELSE Raise("IndexError")

\* The tier branch of display_output (lines 155-160): the element it renders.
TierElement(status, msg) ==
    IF status = "DANGER" THEN <<[el |-> "st.error", text |-> msg[1], icon |-> msg[2]]>>
    ELSE IF status = "WARNING" THEN <<[el |-> "st.warning", text |-> msg[1], icon |-> msg[2]]>>
    ELSE IF status = "SAFE" THEN <<[el |-> "st.success", text |-> msg[1], icon |-> msg[2]]>>
    ELSE <<>>

\* display_output: what it appends to the page, or the exception it raises.
display_output(t, r, wb) ==
    LET metrics == << [el |-> "temperature", value |-> t],
                      [el |-> "humidity", value |-> r],
                      [el |-> "wetbulb", value |-> wb] >>
        res == check_status(wb)
    IN  IF ~res.ok THEN [out |-> res, rendered |-> metrics]
        ELSE LET status == res.val[1]
                 msg    == res.val[2]
             IN  [out |-> Return(res.val),
                  rendered |-> metrics \o TierElement(status, msg)
                               \o <<[el |-> "st.markdown", text |-> msg[3]]>>]

(***************************************************************************)
(* The exchanges the network can deliver to a run of the script.           *)
(***************************************************************************)
Timestamps == 0..MaxTime

TempBodies ==
    { NoItemsBody, EmptyItemsBody, NoReadingsBody, ReadingsBody(<<>>),
      ReadingsBody(<<FromInt(30), FromInt(32)>>) }

RhBodies ==
    { NoItemsBody, EmptyItemsBody, NoReadingsBody, ReadingsBody(<<>>),
      ReadingsBody(<<FromInt(-1)>>),
      ReadingsBody(<<FromInt(70), FromInt(80)>>) }

TempExchanges ==
    {NetworkFailure, HtmlResponse(503), JsonResponse(429, NoItemsBody)}
        \cup {JsonResponse(200, b) : b \in TempBodies}

RhExchanges ==
    {NetworkFailure, HtmlResponse(503), JsonResponse(429, NoItemsBody)}
        \cup {JsonResponse(200, b) : b \in RhBodies}

\* A cache that keys every call alike.
CacheKeyCoarse(for_datetime) == 0

\* st.cache_data keys an entry by the call's argument values.
CacheKey(for_datetime) == for_datetime

EmptyCache == [t \in {} |-> None]

Init ==
    /\ now = 0
    /\ cache = EmptyCache
    /\ status_message = StatusMessageTable
    /\ pc = "idle"
    /\ live_datetime = None
    /\ temp = None
    /\ rh = None
    /\ avg_temp = None
    /\ avg_rh = None
    /\ wetbulb = None
    /\ shown = None
    /\ exception = "none"
    /\ page = <<>>
    /\ called = {}
    /\ requests_sent = 0
    /\ exchanges = <<>>
    /\ fetch_log = {}

\* The clock advances between runs (a run reads it once, at line 209).
Tick ==
    /\ pc \in {"idle", "done", "failed"}
    /\ now < MaxTime
    /\ now' = now + 1
    /\ UNCHANGED <<cache, status_message, pc, live_datetime, temp, rh, avg_temp,
                   avg_rh, wetbulb, shown, exception, page, called,
                   requests_sent, exchanges, fetch_log>>

\* Lines 205-209: a script run starts; display_intro, then the timestamp.
StartRun ==
    /\ live_datetime' = now
    /\ pc' = "get_temp_rh"
    /\ page' = <<[el |-> "intro"]>>
    /\ temp' = None /\ rh' = None /\ avg_temp' = None /\ avg_rh' = None
    /\ wetbulb' = None /\ shown' = None
    /\ exception' = "none"
    /\ called' = {"display_intro"}
    /\ requests_sent' = 0
    /\ exchanges' = <<>>
    /\ UNCHANGED <<now, cache, status_message, fetch_log>>

\* The browser opens or reloads the page.
PageLoad ==
    /\ pc \in {"idle", "done", "failed"}
    /\ StartRun

\* The user presses the Refresh button, when the page shows one.
ClickRefresh ==
    /\ pc \in {"done", "failed"}
    /\ \E i \in 1..Len(page) : page[i] = [el |-> "st.button", label |-> "Refresh"]
    /\ StartRun

\* An uncaught exception ends the run: Streamlit shows it and runs no further
\* statement of the script.
Fail(x) ==
    /\ pc' = "failed"
    /\ exception' = x
    /\ page' = Append(page, [el |-> "st.exception", text |-> x])

\* Line 210, with the st.cache_data wrapper of line 55: a stored value is
\* returned without running the body, a returned value is stored, an exception
\* is not.  (The wrappers of agg_values, calc_wetbulb, check_status and
\* display_output memoize functions of their arguments alone and change no
\* value of a run; their bodies are modelled as running in every run.)
GetTempRh ==
    /\ pc = "get_temp_rh"
    /\ IF CacheKey(live_datetime) \in DOMAIN cache
       THEN /\ temp' = cache[CacheKey(live_datetime)][1]
            /\ rh' = cache[CacheKey(live_datetime)][2]
            /\ pc' = "agg_values"
            /\ UNCHANGED <<cache, fetch_log, requests_sent, exchanges, called,
                           exception, page>>
       ELSE \E r1 \in TempExchanges, r2 \in RhExchanges :
              LET res == get_temp_rh(r1, r2)
              IN  /\ called' = called \cup {"get_temp_rh"}
                  /\ requests_sent' = requests_sent + res.sent
                  /\ exchanges' = exchanges \o SubSeq(<<r1, r2>>, 1, res.sent)
                  /\ IF res.out.ok
                     THEN /\ cache' = [t \in DOMAIN cache \cup {CacheKey(live_datetime)} |->
                                         IF t = CacheKey(live_datetime)
                                         THEN res.out.val ELSE cache[t]]
                          /\ fetch_log' = fetch_log \cup
                                {[ts |-> live_datetime, val |-> res.out.val]}
                          /\ temp' = res.out.val[1]
                          /\ rh' = res.out.val[2]
                          /\ pc' = "agg_values"
                          /\ UNCHANGED <<exception, page>>
                     ELSE /\ Fail(res.out.exc)
                          /\ UNCHANGED <<cache, fetch_log, temp, rh>>
    /\ UNCHANGED <<now, status_message, live_datetime, avg_temp, avg_rh, wetbulb,
                   shown>>

\* Line 213.
AggValues ==
    /\ pc = "agg_values"
    /\ called' = called \cup {"agg_values"}
    /\ LET res == agg_values(temp, rh)
       IN  IF res.ok
           THEN /\ avg_temp' = res.val[1]
                /\ avg_rh' = res.val[2]
                /\ pc' = "calc_wetbulb"
                /\ UNCHANGED <<exception, page>>
           ELSE /\ Fail(res.exc)
                /\ UNCHANGED <<avg_temp, avg_rh>>
    /\ UNCHANGED <<now, cache, status_message, live_datetime, temp, rh, wetbulb,
                   shown, requests_sent, exchanges, fetch_log>>

\* Line 214.
CalcWetbulb ==
    /\ pc = "calc_wetbulb"
    /\ called' = called \cup {"calc_wetbulb"}
    /\ \E res \in calc_wetbulb(avg_temp, avg_rh) :
         IF res.ok
         THEN /\ wetbulb' = res.val
              /\ pc' = "display_output"
              /\ UNCHANGED <<exception, page>>
         ELSE /\ Fail(res.exc)
              /\ UNCHANGED wetbulb
    /\ UNCHANGED <<now, cache, status_message, live_datetime, temp, rh, avg_temp,
                   avg_rh, shown, requests_sent, exchanges, fetch_log>>

\* Line 217: display_output, check_status included.
DisplayOutput ==
    /\ pc = "display_output"
    /\ called' = called \cup {"display_output", "check_status"}
    /\ LET res == display_output(avg_temp, avg_rh, wetbulb)
       IN  IF res.out.ok
           THEN /\ shown' = res.out.val
                /\ page' = page \o res.rendered
                /\ pc' = "button"
                /\ UNCHANGED exception
           ELSE /\ pc' = "failed"
                /\ exception' = res.out.exc
                /\ page' = Append(page \o res.rendered,
                                  [el |-> "st.exception", text |-> res.out.exc])
                /\ UNCHANGED shown
    /\ UNCHANGED <<now, cache, status_message, live_datetime, temp, rh, avg_temp,
                   avg_rh, wetbulb, requests_sent, exchanges, fetch_log>>

\* Lines 218-221: the Refresh button and display_info end the run.
Finish ==
    /\ pc = "button"
    /\ page' = page \o <<[el |-> "st.button", label |-> "Refresh"], [el |-> "info"]>>
    /\ called' = called \cup {"display_info"}
    /\ pc' = "done"
    /\ UNCHANGED <<now, cache, status_message, live_datetime, temp, rh, avg_temp,
                   avg_rh, wetbulb, shown, exception, requests_sent, exchanges,
                   fetch_log>>

Next ==
    \/ Tick
    \/ PageLoad
    \/ ClickRefresh
    \/ GetTempRh
    \/ AggValues
    \/ CalcWetbulb
    \/ DisplayOutput
    \/ Finish

Spec == Init /\ [][Next]_vars

(***************************************************************************)
(* The functions on their own: a run that has reached one statement of     *)
(* __main__, with that statement's arguments drawn from bounded sets.      *)
(***************************************************************************)
\* A run at statement p whose fetch of (t, r) is cached under timestamp 0.
MidRun(p, t, r, at, ar, wb, fns) ==
    /\ now = 0
    /\ live_datetime = 0
    /\ cache = [x \in {CacheKey(0)} |-> <<t, r>>]
    /\ fetch_log = {[ts |-> 0, val |-> <<t, r>>]}
    /\ status_message = StatusMessageTable
    /\ pc = p
    /\ temp = t
    /\ rh = r
    /\ avg_temp = at
    /\ avg_rh = ar
    /\ wetbulb = wb
    /\ shown = None
    /\ exception = "none"
    /\ page = <<[el |-> "intro"]>>
    /\ called = fns
    /\ requests_sent = 2
    /\ exchanges = <<JsonResponse(200, t), JsonResponse(200, r)>>

\* Number of significands taken from each end of a binade.
Span == 3

\* Readings to average: both ends of two binades, both signs, and zero.
AggMantissas ==
    (2^(Precision-1))..(2^(Precision-1) + Span - 1)
        \cup (2^Precision - Span)..(2^Precision - 1)

AggInputs ==
    {Num(m, e) : m \in AggMantissas, e \in {0, 1}}
        \cup {Num(-m, 0) : m \in (2^Precision - 2)..(2^Precision - 1)}
        \cup {Zero}

RECURSIVE SeqsUpTo(_, _)
SeqsUpTo(S, n) ==
    IF n = 0 THEN {<<>>}
    ELSE LET shorter == SeqsUpTo(S, n - 1)
         IN  shorter \cup {Append(q, x) : q \in {z \in shorter : Len(z) = n - 1}, x \in S}

InitAgg ==
    \E vals \in SeqsUpTo(AggInputs, MaxReadings) :
        \/ MidRun("agg_values", ReadingsBody(vals), ReadingsBody(<<FromInt(60)>>),
                  None, None, None, {"display_intro", "get_temp_rh"})
        \/ MidRun("agg_values", ReadingsBody(<<FromInt(30)>>), ReadingsBody(vals),
                  None, None, None, {"display_intro", "get_temp_rh"})

NextAgg == AggValues

SpecAgg == InitAgg /\ [][NextAgg]_vars

\* The response whose mean is x: one reading, none for nan.
BodyOf(x) == ReadingsBody(IF IsNaN(x) THEN <<>> ELSE <<x>>)

WbTempInputs ==
    {NaN, Zero, FromInt(-5), FromInt(20), FromInt(30), FromInt(40), FromInt(60)}

WbRhInputs ==
    {NaN, Zero, RoundInt(-1, -4), RoundInt(1, -4)}
        \cup {FromInt(n) : n \in {-100, -9, -8, -1, 1, 8, 60, 100}}
        \cup {FromDecimal(-8313659, 1000000),
              FPred(FromDecimal(8313659, 1000000)),
              [FPred(FromDecimal(8313659, 1000000)) EXCEPT !.m = -@]}

InitWetbulb ==
    \E t \in WbTempInputs, r \in WbRhInputs :
        MidRun("calc_wetbulb", BodyOf(t), BodyOf(r), t, r, None,
               {"display_intro", "get_temp_rh", "agg_values"})

NextWetbulb == CalcWetbulb

SpecWetbulb == InitWetbulb /\ [][NextWetbulb]_vars

\* Wet-bulb values to classify: the integers around the thresholds, the
\* half-integers, the neighbours of the thresholds, huge values and nan.
ClassifyInputs ==
    {FromInt(n) : n \in -20..(2^Precision - 1)}
        \cup {Num(m, -1) : m \in (2^(Precision-1))..(2^Precision - 1)}
        \cup {FPred(FromInt(THRESHOLD_DANGER)), FPred(FromInt(THRESHOLD_WARNING)),
              RoundInt(1, 20), RoundInt(-1, 20), NaN}

InitClassify ==
    \E w \in ClassifyInputs :
        LET t == IF IsNaN(w) THEN NaN ELSE FromInt(30)
        IN  MidRun("display_output", BodyOf(t), BodyOf(FromInt(60)), t, FromInt(60), w,
                   {"display_intro", "get_temp_rh", "agg_values", "calc_wetbulb"})

NextClassify == DisplayOutput

SpecClassify == InitClassify /\ [][NextClassify]_vars

(***************************************************************************)
(* Exact arithmetic on the numbers of a state, for stating the properties: *)
(* a number m * 2^e as the integer m * 2^(e - e0).                         *)
(***************************************************************************)
Exact(x, e0) == IF x.m = 0 THEN 0 ELSE x.m * 2^(x.e - e0)

\* An exponent no larger than that of a and of every element of xs.
LeastExp(xs, a) ==
    LET es == {a.e} \cup {xs[i].e : i \in 1..Len(xs)}
    IN  CHOOSE e \in es : \A f \in es : e <= f

RECURSIVE ExactSum(_, _)
ExactSum(xs, e0) ==
    IF Len(xs) = 0 THEN 0
    ELSE ExactSum(SubSeq(xs, 1, Len(xs) - 1), e0) + Exact(xs[Len(xs)], e0)

\* The "value" fields of the first batch of a well-formed body.
FirstBatchValues(d) ==
    [i \in 1..Len(d.items[1].readings) |-> d.items[1].readings[i].value]

\* min(xs) <= a <= max(xs), exactly.
BetweenExtremes(a, xs) ==
    LET e0 == LeastExp(xs, a)
    IN  /\ \E i \in 1..Len(xs) : Exact(xs[i], e0) <= Exact(a, e0)
        /\ \E i \in 1..Len(xs) : Exact(a, e0) <= Exact(xs[i], e0)

\* |a - sum(xs)/n| <= n * 2^(1-Precision) * max|xs|, exactly.
MeanUpToRounding(a, xs) ==
    LET e0 == LeastExp(xs, a)
        n  == Len(xs)
    IN  \E i \in 1..n :
            2^(Precision-1) * Abs(n * Exact(a, e0) - ExactSum(xs, e0))
                <= n * n * Abs(Exact(xs[i], e0))

AggReturned == pc = "calc_wetbulb" /\ "agg_values" \in called

\* C7 as stated: for every non-empty reading sequence the average agg_values
\* returns lies between the minimum and the maximum of the first batch's values,
\* for the temperature and for the humidity.
C7_MeanBetweenExtremes ==
    AggReturned =>
        /\ Len(FirstBatchValues(temp)) > 0
              => ~IsNaN(avg_temp) /\ BetweenExtremes(avg_temp, FirstBatchValues(temp))
        /\ Len(FirstBatchValues(rh)) > 0
              => ~IsNaN(avg_rh) /\ BetweenExtremes(avg_rh, FirstBatchValues(rh))

\* C7 amended: for every non-empty reading sequence of n values the average
\* agg_values returns is the arithmetic mean of the first batch's values up to
\* the rounding of the sum and of the division: it differs from the exact mean
\* (hence from the interval [min, max]) by at most n * 2^(1-Precision) times
\* the largest magnitude among the values.
C7_MeanUpToRounding ==
    AggReturned =>
        /\ Len(FirstBatchValues(temp)) > 0
              => ~IsNaN(avg_temp) /\ MeanUpToRounding(avg_temp, FirstBatchValues(temp))
        /\ Len(FirstBatchValues(rh)) > 0
              => ~IsNaN(avg_rh) /\ MeanUpToRounding(avg_rh, FirstBatchValues(rh))

\* C7 witness: the mean returned for a full-length sequence lies outside
\* [min, max], within the rounding bound.
C7_Witness ==
    /\ AggReturned
    /\ Len(FirstBatchValues(temp)) = MaxReadings
    /\ ~BetweenExtremes(avg_temp, FirstBatchValues(temp))
    /\ MeanUpToRounding(avg_temp, FirstBatchValues(temp))

(***************************************************************************)
(* Vocabulary of the remaining properties.                                 *)
(***************************************************************************)
\* x >= n for an integer n, exactly (false for nan).
ExactAtLeast(x, n) ==
    /\ ~IsNaN(x)
    /\ IF x.e >= 0 THEN x.m * 2^(x.e) >= n ELSE x.m >= n * 2^(-(x.e))

Negative(x) == ~IsNaN(x) /\ x.m < 0

\* The body has the shape agg_values reads: items, a first batch, readings.
WellFormed(d) ==
    /\ "items" \in DOMAIN d
    /\ Len(d.items) > 0
    /\ "readings" \in DOMAIN d.items[1]

EmptyReadings(d) == WellFormed(d) /\ Len(d.items[1].readings) = 0

\* The request did not succeed: no response, or a status outside 2xx.
RequestFailed(x) == x.failed \/ x.status \notin 200..299

Downstream == {"calc_wetbulb", "check_status", "display_output"}

TierElements ==
    {i \in 1..Len(page) : page[i].el \in {"st.error", "st.warning", "st.success"}}

RefreshOffered ==
    \E i \in 1..Len(page) : page[i] = [el |-> "st.button", label |-> "Refresh"]

\* C1: check_status gives DANGER for w >= 35, otherwise WARNING for w >= 31,
\* otherwise SAFE, the thresholds themselves included in the higher tier, for
\* every wet-bulb value however low or high.
C1_ThresholdTiers ==
    "check_status" \in called =>
        /\ pc = "button"
        /\ shown[1] = IF ExactAtLeast(wetbulb, 35) THEN "DANGER"
                      ELSE IF ExactAtLeast(wetbulb, 31) THEN "WARNING"
                      ELSE "SAFE"

\* C1 witness: the largest number below 35 has been classified, as WARNING.
C1_Witness ==
    /\ "check_status" \in called
    /\ wetbulb = FPred(FromInt(35))
    /\ ~ExactAtLeast(wetbulb, 35)
    /\ shown[1] = "WARNING"

\* C6: check_status returns one of DANGER, WARNING, SAFE for every numeric
\* input, never NONE, and display_output renders exactly one of the three tier
\* elements.
C6_NoneNeverLeaks ==
    "display_output" \in called =>
        /\ pc = "button"
        /\ shown[1] \in {"DANGER", "WARNING", "SAFE"}
        /\ Cardinality(TierElements) = 1

\* C6 witness: a value below both thresholds, where only the else branch
\* replaces the initial NONE, has been displayed.
C6_Witness ==
    /\ "display_output" \in called
    /\ ~ExactAtLeast(wetbulb, 31)
    /\ ~IsNaN(wetbulb)
    /\ shown[1] = "SAFE"
    /\ \E i \in TierElements : page[i].el = "st.success"

\* C8: check_status pairs each tier with its own guidance record (DANGER with
\* "might be dangerous", WARNING with "might be unsafe", SAFE with "is safe"),
\* the lookup never fails, and the table never changes.
C8_OwnGuidance ==
    /\ status_message = StatusMessageTable
    /\ "check_status" \in called =>
          /\ pc = "button"
          /\ \/ /\ shown[1] = "DANGER"
                /\ shown[2][1] = "Current environment might be dangerous."
                /\ shown[2] = StatusMessageTable[0]
             \/ /\ shown[1] = "WARNING"
                /\ shown[2][1] = "Current environment might be unsafe."
                /\ shown[2] = StatusMessageTable[1]
             \/ /\ shown[1] = "SAFE"
                /\ shown[2][1] = "Current environment is safe."
                /\ shown[2] = StatusMessageTable[2]

\* C8 witness: a WARNING was returned with the "might be unsafe" record.
C8_Witness ==
    /\ "check_status" \in called
    /\ shown[1] = "WARNING"
    /\ shown[2][1] = "Current environment might be unsafe."

\* C5: calc_wetbulb with a negative relative humidity raises, for every
\* temperature (nan included), and returns no value.
C5_NegativeHumidityRaises ==
    ("calc_wetbulb" \in called /\ Negative(avg_rh)) =>
        /\ pc = "failed"
        /\ exception = "ValueError"
        /\ wetbulb = None

\* C5 witness: calc_wetbulb was called with RH = -1 and raised.
C5_Witness ==
    /\ "calc_wetbulb" \in called
    /\ avg_rh = FromInt(-1)
    /\ avg_temp = FromInt(30)
    /\ pc = "failed"

\* C2 as stated: when a request of the run failed (no response or a non-2xx
\* status) the run never reaches agg_values, calc_wetbulb, check_status or
\* display_output.
C2_FailedRequestAborts ==
    (\E i \in 1..Len(exchanges) : RequestFailed(exchanges[i])) =>
        called \cap ({"agg_values"} \cup Downstream) = {}

\* C3 as stated: agg_values on a response whose first batch has no readings
\* ends in an error and returns no average.
C3_EmptyReadingsRaise ==
    ("agg_values" \in called /\ (EmptyReadings(temp) \/ EmptyReadings(rh))) =>
        /\ pc = "failed"
        /\ avg_temp = None
        /\ avg_rh = None

\* C4: a temperature or humidity response without "items", with an empty
\* "items" or whose first batch has no "readings" makes agg_values raise: no
\* average is returned and calc_wetbulb, check_status and display_output are
\* not called in that run.
C4_MalformedRaises ==
    ("agg_values" \in called /\ (~WellFormed(temp) \/ ~WellFormed(rh))) =>
        /\ pc = "failed"
        /\ exception \in {"TypeError", "IndexError", "KeyError"}
        /\ avg_temp = None
        /\ avg_rh = None
        /\ wetbulb = None
        /\ called \cap Downstream = {}

\* C4 witness: the temperature response was well formed and had readings, the
\* humidity response had no readings list, and agg_values raised.
C4_Witness ==
    /\ "agg_values" \in called
    /\ WellFormed(temp) /\ ~EmptyReadings(temp)
    /\ rh = NoReadingsBody
    /\ pc = "failed"
    /\ exception = "KeyError"

\* C9 as stated: a run that failed offers the Refresh action.
C9_FailureOffersRefresh == pc = "failed" => RefreshOffered

\* The cache holds exactly what the bodies of get_temp_rh returned, under the
\* timestamp each was called with.
C10_CacheConsistent ==
    /\ DOMAIN cache = {x.ts : x \in fetch_log}
    /\ \A x \in fetch_log : cache[x.ts] = x.val

\* One call of get_temp_rh: a hit for a timestamp fetched before, a fetch
\* otherwise; every other step leaves the cache alone.
C10_GetStep ==
    IF pc = "get_temp_rh" /\ pc' # "get_temp_rh"
    THEN /\ IF \E x \in fetch_log : x.ts = live_datetime
            THEN /\ pc' = "agg_values"
                 /\ requests_sent' = requests_sent
                 /\ exchanges' = exchanges
                 /\ [ts |-> live_datetime, val |-> <<temp', rh'>>] \in fetch_log
                 /\ fetch_log' = fetch_log
                 /\ cache' = cache
            ELSE /\ requests_sent' > requests_sent
                 /\ pc' = "failed" => cache' = cache /\ fetch_log' = fetch_log
                 /\ pc' = "agg_values" =>
                       /\ requests_sent' = requests_sent + 2
                       /\ fetch_log' = fetch_log \cup
                              {[ts |-> live_datetime, val |-> <<temp', rh'>>]}
         /\ \A t \in DOMAIN cache : t \in DOMAIN cache' /\ cache'[t] = cache[t]
         /\ DOMAIN cache' \subseteq DOMAIN cache \cup {live_datetime}
    ELSE cache' = cache

\* C10: get_temp_rh returns a stored pair only for a timestamp an earlier call
\* fetched successfully, returns exactly that pair and sends no request then;
\* a call that raises stores nothing, so a call for a timestamp never fetched
\* sends requests again (both, when it returns); no step changes the entry of
\* another timestamp.
C10_Memoization == []C10_CacheConsistent /\ [][C10_GetStep]_vars

\* C10 witness: a run got its responses from the cache, without a request,
\* while another timestamp is cached too.
C10_Witness ==
    /\ pc = "agg_values"
    /\ requests_sent = 0
    /\ Cardinality(DOMAIN cache) = 2
    /\ <<temp, rh>> = cache[live_datetime]
====
